---------------------------- MODULE Spec2Model ----------------------------
(***************************************************************************)
(* NrFileCompressor (src/src/NrFileCompressor.cpp): one file compressed    *)
(* into a GZIP or a ZIP container, and ZIP extraction.                     *)
(*                                                                         *)
(* Strings (QString and C strings) are sequences of one-character tokens; *)
(* the token "U+03BB" stands for a character outside Latin-1.  32-bit words   *)
(* are pairs (low 16 bits, high 16 bits), 64-bit words are four 16-bit     *)
(* limbs, least significant first, so that every width of the source is    *)
(* kept although the checker's integers are 32 bits wide.                  *)
(***************************************************************************)
EXTENDS Integers, Sequences, FiniteSets, TLC

\* ------------------------------------------------------------------ bounds
\* Capacity of s_inbuf and s_outbuf.  The source sets 1024 * 1024 (line 362);
\* the model keeps the loop's structure with a capacity of a few bytes.
BUF_SIZE == 2
\* Longest source file, in bytes.
MaxFileLen == 4
\* Most bytes one deflate stream produces.
MaxOut == 4
\* Longest file name of the file-name specification.
MaxNameLen == 3
\* Most entries of an archive uncompressZipFile is given.
MaxEntries == 3

\* ----------------------------------------------------------------- strings
GZIP_EXT == <<".", "g", "z">>
ZIP_EXT == <<".", "z", "i", "p">>

\* Characters a QString of the model holds: ASCII ones and one outside Latin-1.
AsciiChars == {"a", "b", "s", "d", "g", "z", "i", "p", ".", "_", "/", "\\", ":", "?"}
NonLatin1 == "U+03BB"

\* QString::replace(before, after) for a one-character `before`: every occurrence.
Replace(s, before, after) == [i \in 1..Len(s) |-> IF s[i] = before THEN after ELSE s[i]]

\* QString::toLatin1(): a character outside Latin-1 becomes '?'.
toLatin1(s) == [i \in 1..Len(s) |-> IF s[i] \in AsciiChars THEN s[i] ELSE "?"]

\* QString(const char *): the bytes decoded as UTF-8.  In a C string the
\* token of a character outside Latin-1 stands for its UTF-8 encoding; any
\* other byte sequence decodes to the replacement character.
fromUtf8(s) ==
    [i \in 1..Len(s) |-> IF s[i] \in AsciiChars \cup {NonLatin1} THEN s[i] ELSE "U+FFFD"]

\* QDir::fromNativeSeparators: '\' becomes '/' on Windows, nothing changes elsewhere.
fromNativeSeparators(w32, p) == IF w32 THEN Replace(p, "\\", "/") ELSE p

\* A mutant of calculateNameCompliantWithZipAlgoMiniZ: ':' is left in place.
calculateNameCompliantNoColon(filename) ==
    Replace(Replace(filename, "\\", "_"), "/", "_")

calculateNameCompliantWithZipAlgoMiniZ(filename) ==
    Replace(Replace(Replace(filename, "\\", "_"), "/", "_"), ":", "_")

calculateFilenameWithPath(w32, i_dstPath, filename) ==
    LET d == fromNativeSeparators(w32, i_dstPath)
        destfileWithpath == IF Len(d) > 0 /\ d[Len(d)] = "/" THEN d ELSE d \o <<"/">>
    IN  destfileWithpath \o filename

\* compressedFileFormatEnum, and a value outside the enumeration.
NO_COMPRESSION == "NO_COMPRESSION"
GZIP_ARCHIVE == "GZIP_ARCHIVE"
ZIP_ARCHIVE == "ZIP_ARCHIVE"
Algos == {NO_COMPRESSION, GZIP_ARCHIVE, ZIP_ARCHIVE, "unknown"}

getCompressedFilename(i_fileName, i_algo) ==
    CASE i_algo = GZIP_ARCHIVE -> i_fileName \o GZIP_EXT
      [] i_algo = ZIP_ARCHIVE -> calculateNameCompliantWithZipAlgoMiniZ(i_fileName) \o ZIP_EXT
      [] OTHER -> i_fileName

\* QFileInfo(path).fileName(): what follows the last '/'.
RECURSIVE LastSlash(_, _)
LastSlash(s, i) == IF i = 0 THEN 0 ELSE IF s[i] = "/" THEN i ELSE LastSlash(s, i - 1)
fileName(s) == SubSeq(s, LastSlash(s, Len(s)) + 1, Len(s))

\* CompressErrorType, EXIT_FAILURE and Z_OK
E_FILE_NOT_OPEN == -1
E_MINIZ_ERROR == -3
EXIT_FAILURE == 1
Z_OK == 0

\* ------------------------------------------------------------------- words
RECURSIVE Xor16(_, _)
Xor16(a, b) == IF a = 0 THEN b ELSE IF b = 0 THEN a
               ELSE (((a % 2) + (b % 2)) % 2) + 2 * Xor16(a \div 2, b \div 2)
RECURSIVE And16(_, _)
And16(a, b) == IF a = 0 \/ b = 0 THEN 0
               ELSE ((a % 2) * (b % 2)) + 2 * And16(a \div 2, b \div 2)

Xor32(a, b) == <<Xor16(a[1], b[1]), Xor16(a[2], b[2])>>
Not32(w) == <<65535 - w[1], 65535 - w[2]>>
\* w >> s for 0 <= s < 32
Shr32(w, s) == IF s >= 16 THEN <<w[2] \div 2^(s - 16), 0>>
               ELSE <<(w[1] \div 2^s) + (w[2] % 2^s) * 2^(16 - s), w[2] \div 2^s>>

\* A length below 2^31 as a qint64.
ToQInt64(n) == <<n % 65536, n \div 65536, 0, 0>>
And64(a, b) == [i \in 1..4 |-> And16(a[i], b[i])]
\* static_cast<quint32>(qint64): the low 32 bits.
CastQUInt32(q) == <<q[1], q[2]>>

\* LONG_MAX - 1 converted to qint64: 2^63 - 2 where long has 64 bits, 2^31 - 2
\* where it has 32 (Windows).
LongMaxMinus1(w32) == IF w32 THEN <<65534, 32767, 0, 0>> ELSE <<65534, 65535, 65535, 32767>>

\* quint32 modsize = static_cast<quint32>(finSize & (LONG_MAX - 1));
modsize(w32, finSize) == CastQUInt32(And64(finSize, LongMaxMinus1(w32)))

getByte(var, bytenum) ==
    LET shift == CASE bytenum = 1 -> 8 [] bytenum = 2 -> 16 [] bytenum = 3 -> 24 [] OTHER -> 0
    IN  Shr32(var, shift)[1] % 256

\* ------------------------------------------------------------------- CRC32
\* mz_crc32 of miniz: the reflected CRC-32 of polynomial 0xEDB88320.
CrcPoly == <<33568, 60856>>
RECURSIVE CrcRound(_, _)
CrcRound(c, k) ==
    IF k = 0 THEN c
    ELSE CrcRound(IF c[1] % 2 = 1 THEN Xor32(Shr32(c, 1), CrcPoly) ELSE Shr32(c, 1), k - 1)
CrcTable == [b \in 0..255 |-> CrcRound(<<b, 0>>, 8)]
RECURSIVE CrcUpdate(_, _)
CrcUpdate(c, buf) ==
    IF buf = <<>> THEN c
    ELSE CrcUpdate(Xor32(Shr32(c, 8), CrcTable[Xor16(c[1] % 256, Head(buf))]), Tail(buf))
\* mz_crc32(0, nullptr, 0)
MZ_CRC32_INIT == <<0, 0>>
\* mz_crc32(crc, ptr, buf_len) with ptr naming the bytes buf
mz_crc32(crc, buf) == Not32(CrcUpdate(Not32(crc), buf))

\* -------------------------------------------------------------- GZIP frame
\* A mutant of writeGzipHeader: the flags byte is left out.
GzipHeaderBytesNoFlags(w32, i_mtime) ==
    <<31, 139, 8, getByte(i_mtime, 0), getByte(i_mtime, 1), getByte(i_mtime, 2),
      getByte(i_mtime, 3), 0, IF w32 THEN 0 ELSE 3>>

\* The bytes writeGzipHeader hands to QFile::write, in order.
GzipHeaderBytes(w32, i_mtime) ==
    <<31, 139, 8, 0, getByte(i_mtime, 0), getByte(i_mtime, 1), getByte(i_mtime, 2),
      getByte(i_mtime, 3), 0, IF w32 THEN 0 ELSE 3>>

\* The bytes writeGzipFooter hands to QFile::write, in order.
GzipFooterBytes(i_crc32, i_size) ==
    <<getByte(i_crc32, 0), getByte(i_crc32, 1), getByte(i_crc32, 2), getByte(i_crc32, 3),
      getByte(i_size, 0), getByte(i_size, 1), getByte(i_size, 2), getByte(i_size, 3)>>

\* --------------------------------------------------------------- the files
\* The operating system's reading of a path: "//" is "/", a leading "./" is
\* the current directory.
RECURSIVE Squeeze(_)
Squeeze(s) == IF Len(s) < 2 THEN s
              ELSE IF s[1] = "/" /\ s[2] = "/" THEN Squeeze(Tail(s))
              ELSE <<s[1]>> \o Squeeze(Tail(s))
Canon(s) == LET t == Squeeze(s)
            IN  IF Len(t) >= 2 /\ t[1] = "." /\ t[2] = "/" THEN SubSeq(t, 3, Len(t)) ELSE t

\* A regular file of bytes, and a ZIP archive.  An archive is "zip" once
\* its central directory is written, "zipw" while it is being written.
RawFile(bytes) == [kind |-> "raw", bytes |-> bytes, entries |-> <<>>]
ZipFile(kind, entries) == [kind |-> kind, bytes |-> <<>>, entries |-> entries]
FsPut(f, p, v) == [q \in DOMAIN f \cup {p} |-> IF q = p THEN v ELSE f[q]]
Min(a, b) == IF a < b THEN a ELSE b
Range(s) == {s[i] : i \in 1..Len(s)}

\* fopen of the C library, which miniz uses: '?' is no character of a Windows
\* file name.
NativeOpenable(w32, p) == ~(w32 /\ "?" \in Range(p))

\* The values of a byte of a source file, and every source file.
ByteVals == {0, 97}
RECURSIVE SeqsUpTo(_, _)
SeqsUpTo(S, n) == IF n = 0 THEN {<<>>}
                  ELSE LET R == SeqsUpTo(S, n - 1)
                       IN  R \cup {Append(r, e) : r \in {q \in R : Len(q) = n - 1}, e \in S}
Files == SeqsUpTo(ByteVals, MaxFileLen)

\* The arguments of the calls.
FileNames == {<<"a">>, <<NonLatin1>>}
Dirs == {<<"s">>, <<"d", "/">>}
DestDirs == Dirs \cup {<<>>}

\* The file another name of the source directory holds.
Decoy == <<97, 97, 0>>

\* ------------------------------------------------------------------ state
VARIABLES
    win32,              \* the build: WIN32 defined (long has 32 bits) or not
    fs,                 \* the file system: canonical path -> file
    pc,                 \* where the running call is
    call,               \* the running (or last) call and its arguments
    ret,                \* what the last call returned (read when pc = "done")
    finSize,            \* qint64 finSize
    infile_remaining,   \* qint64 infile_remaining
    fin_pos,            \* read position of fin
    stream,             \* z_stream: next_in, avail_in, next_out, avail_out
    s_inbuf,            \* the bytes the last read put into s_inbuf
    s_outbuf,           \* the bytes deflate has put into s_outbuf, from its start
    crc,                \* ulong crc
    status,             \* int status of the last deflate
    z,                  \* the compressor: calls of deflateInit2 and deflateEnd,
                        \* bytes consumed, bytes produced, flush of the last step
    fed,                \* history: the bytes handed to mz_crc32, in order
    iolog,              \* history: the reads of fin and the writes to fout, in order
    zip,                \* mz_zip_archive: opens, closes, a failure it reported
    uz,                 \* uncompressZipFile: archive path, entries, i, extracted,
                        \* and (history) the file system the call started on
    prev,               \* history: the compressZipFile call that returned last
    compressedfilename  \* QString compressedfilename

gzvars == <<finSize, infile_remaining, fin_pos, stream, s_inbuf, s_outbuf, crc, status,
            z, fed, iolog>>
zipvars == <<zip, uz, prev>>
vars == <<win32, fs, pc, call, ret, compressedfilename, gzvars, zipvars>>

Z_NO_FLUSH == 0
Z_FINISH == 4
Z_STREAM_END == 1
Z_STREAM_ERROR == -2

NoCall == [fn |-> "none", via |-> "none", name |-> <<>>, src |-> <<>>, dst |-> <<>>]
NoStream == [next_in |-> 0, avail_in |-> 0, next_out |-> 0, avail_out |-> 0]
NoZ == [inits |-> 0, ends |-> 0, consumed |-> <<>>, produced |-> 0, flush |-> Z_NO_FLUSH]
NoUz == [path |-> <<>>, entries |-> <<>>, i |-> 0, extracted |-> {}, clobbered |-> FALSE,
         before |-> <<>>]
NoPrev == [fn |-> "none", ret |-> 0, F |-> <<>>, archive |-> <<>>]

\* static_cast<quint32>(finfo.lastModified().toMSecsSinceEpoch()/1000) of the
\* source files: 0x01020304 seconds.
SrcMTime == <<772, 258>>

\* The source directory "s" holds the file F under two names and, where the
\* platform allows the name, another file called "?"; "d/" is empty.
InitFs(w32, F) ==
    LET base == [p \in {<<"s", "/", "a">>, <<"s", "/", NonLatin1>>} |-> RawFile(F)]
    IN  IF w32 THEN base ELSE FsPut(base, <<"s", "/", "?">>, RawFile(Decoy))

InitLocals ==
    /\ pc = "idle"
    /\ ret = 0
    /\ finSize = 0
    /\ infile_remaining = 0
    /\ fin_pos = 0
    /\ stream = NoStream
    /\ s_inbuf = <<>>
    /\ s_outbuf = <<>>
    /\ crc = MZ_CRC32_INIT
    /\ status = Z_OK
    /\ z = NoZ
    /\ fed = <<>>
    /\ iolog = <<>>
    /\ zip = [opens |-> 0, closes |-> 0, failed |-> FALSE]
    /\ compressedfilename = <<>>
    /\ uz = NoUz
    /\ prev = NoPrev

Init ==
    /\ win32 \in BOOLEAN
    /\ \E F \in Files : fs = InitFs(win32, F)
    /\ call = NoCall
    /\ InitLocals

\* ------------------------------------------------------- compressGzipFile
srcfilename == calculateFilenameWithPath(win32, call.src, call.name)
gzDestfilename == calculateFilenameWithPath(win32, call.dst, compressedfilename)

\* QFile::exists
QFileExists(path) == Canon(path) \in DOMAIN fs

\* A mutant of the existence check of compressGzipFile: the check is skipped.
GzipSourceMissingNever(path) == FALSE

\* if (!QFile::exists(srcfilename)) of compressGzipFile
GzipSourceMissing(path) == ~QFileExists(path)

Return(code) == pc' = "done" /\ ret' = code

\* Lines 347-386: the names, the existence check, the buffers, the z_stream.
GzipCall(i_filename, i_srcpath, i_dstpath, via) ==
    /\ pc = "idle"
    /\ call' = [fn |-> "compressGzipFile", via |-> via, name |-> i_filename,
                src |-> i_srcpath, dst |-> i_dstpath]
    /\ IF GzipSourceMissing(calculateFilenameWithPath(win32, i_srcpath, i_filename))
       THEN Return(E_FILE_NOT_OPEN) /\ UNCHANGED stream
       ELSE /\ pc' = "gz_open"
            /\ ret' = ret
            /\ stream' = [next_in |-> 0, avail_in |-> 0, next_out |-> 0, avail_out |-> BUF_SIZE]
    /\ compressedfilename' = getCompressedFilename(i_filename, GZIP_ARCHIVE)
    /\ UNCHANGED <<win32, fs, finSize, infile_remaining, fin_pos, s_inbuf, s_outbuf, crc,
                   status, z, fed, iolog, zipvars>>

\* Lines 388-399: both files are opened; opening fout for writing creates or
\* truncates it, whether or not fin could be opened.
GzipOpen ==
    /\ pc = "gz_open"
    /\ \E inOk \in BOOLEAN, outOk \in BOOLEAN :
        /\ fs' = IF outOk THEN FsPut(fs, Canon(gzDestfilename), RawFile(<<>>)) ELSE fs
        /\ IF inOk /\ outOk
           THEN pc' = "gz_header" /\ ret' = ret
           ELSE Return(E_FILE_NOT_OPEN)
    /\ UNCHANGED <<win32, call, compressedfilename, gzvars, zipvars>>

\* QFile::write of the bytes, appended to what fout holds; a failing write
\* transfers nothing.
FoutWrite(f, bytes, ok) ==
    LET d == Canon(gzDestfilename)
    IN  IF ok THEN FsPut(f, d, RawFile(f[d].bytes \o bytes)) ELSE f
Logged(part, bytes, ok) ==
    Append(iolog, [part |-> part, bytes |-> bytes, ok |-> ok])

\* Lines 401-403, writeGzipHeader: the results of its writes are not read.
GzipHeader ==
    /\ pc = "gz_header"
    /\ \E ok \in BOOLEAN :
        LET bytes == GzipHeaderBytes(win32, SrcMTime)
        IN  /\ fs' = FoutWrite(fs, bytes, ok)
            /\ iolog' = Logged("hdr", bytes, ok)
    /\ pc' = "gz_init"
    /\ UNCHANGED <<win32, call, compressedfilename, ret, finSize, infile_remaining, fin_pos, stream, s_inbuf,
                   s_outbuf, crc, status, z, fed, zipvars>>

\* Lines 405-417: the size, deflateInit2, the CRC seed.
GzipInit ==
    /\ pc = "gz_init"
    /\ finSize' = Len(fs[Canon(srcfilename)].bytes)
    /\ infile_remaining' = finSize'
    /\ \E ok \in BOOLEAN :
        IF ok
        THEN /\ z' = [z EXCEPT !.inits = @ + 1]
             /\ crc' = mz_crc32(MZ_CRC32_INIT, <<>>)
             /\ pc' = "gz_loop"
             /\ ret' = ret
        ELSE Return(E_MINIZ_ERROR) /\ UNCHANGED <<z, crc>>
    /\ UNCHANGED <<win32, fs, call, compressedfilename, fin_pos, stream, s_inbuf, s_outbuf, status, fed, iolog,
                   zipvars>>

\* QFile::read of n bytes at the read position.
FinRead(pos, n) == SubSeq(fs[Canon(srcfilename)].bytes, pos + 1, pos + n)

\* A mutant of the CRC update: the last byte read is left out.
CrcInputButLast(buf, n) == SubSeq(buf, 1, n - 1)

\* crc = mz_crc32(crc, s_inbuf.get(), n): the first n bytes of s_inbuf.
CrcInput(buf, n) == SubSeq(buf, 1, n)

\* Lines 423-442: when the compressor has no input left, read the next block.
GzipRead ==
    /\ pc = "gz_loop"
    /\ IF stream.avail_in = 0
       THEN LET n == Min(BUF_SIZE, infile_remaining)
            IN  \E ok \in {TRUE} \cup {b \in {FALSE} : n > 0} :
                  IF ok
                  THEN /\ s_inbuf' = FinRead(fin_pos, n)
                       /\ fin_pos' = fin_pos + n
                       /\ crc' = mz_crc32(crc, CrcInput(s_inbuf', n))
                       /\ fed' = fed \o CrcInput(s_inbuf', n)
                       /\ iolog' = Append(iolog, [part |-> "read", bytes |-> s_inbuf',
                                                  ok |-> TRUE])
                       /\ stream' = [stream EXCEPT !.next_in = 0, !.avail_in = n]
                       /\ infile_remaining' = infile_remaining - n
                       /\ pc' = "gz_deflate"
                       /\ ret' = ret
                  ELSE /\ Return(E_MINIZ_ERROR)
                       /\ iolog' = Append(iolog, [part |-> "read",
                                                  bytes |-> FinRead(fin_pos, n), ok |-> FALSE])
                       /\ UNCHANGED <<s_inbuf, fin_pos, crc, fed, stream, infile_remaining>>
       ELSE /\ pc' = "gz_deflate"
            /\ UNCHANGED <<ret, s_inbuf, fin_pos, crc, fed, stream, infile_remaining, iolog>>
    /\ UNCHANGED <<win32, fs, call, compressedfilename, finSize, s_outbuf, status, z,
                   zipvars>>

\* deflate(&stream, flush) of miniz: what one step may do.  It consumes c
\* bytes of input and produces p bytes of output.  Without Z_FINISH it stops
\* only when the input is used up or the output is full; with Z_FINISH it
\* returns Z_STREAM_END once all input is consumed and the whole stream, at
\* least one byte long, is out, and Z_OK when it ran out of output space.
DeflateOutcomes(avail_in, avail_out, produced, flush) ==
    {[c |-> 0, p |-> 0, st |-> Z_STREAM_ERROR]} \cup
    {o \in [c : 0..avail_in, p : 0..Min(avail_out, MaxOut - produced),
            st : {Z_OK, Z_STREAM_END}] :
        IF o.st = Z_STREAM_END
        THEN flush = Z_FINISH /\ o.c = avail_in /\ produced + o.p >= 1
        ELSE /\ o.c + o.p > 0
             /\ IF flush = Z_FINISH THEN o.p = avail_out
                ELSE o.c = avail_in \/ o.p = avail_out}

\* A mutant of the flush argument: every step asks for the end of the stream.
FlushArgAlwaysFinish(remaining) == Z_FINISH

\* infile_remaining ? Z_NO_FLUSH : Z_FINISH
FlushArg(remaining) == IF remaining # 0 THEN Z_NO_FLUSH ELSE Z_FINISH

\* Line 444: one compression step.
GzipDeflate ==
    /\ pc = "gz_deflate"
    /\ LET flush == FlushArg(infile_remaining)
       IN  \E o \in DeflateOutcomes(stream.avail_in, stream.avail_out, z.produced, flush) :
             /\ stream' = [next_in |-> stream.next_in + o.c,
                           avail_in |-> stream.avail_in - o.c,
                           next_out |-> stream.next_out + o.p,
                           avail_out |-> stream.avail_out - o.p]
             /\ z' = [z EXCEPT
                        !.consumed = @ \o SubSeq(s_inbuf, stream.next_in + 1,
                                                 stream.next_in + o.c),
                        !.produced = @ + o.p,
                        !.flush = flush]
             /\ s_outbuf' = SubSeq(s_outbuf, 1, stream.next_out)
                                \o [k \in 1..o.p |-> z.produced + k]
                                \o SubSeq(s_outbuf, stream.next_out + o.p + 1, Len(s_outbuf))
             /\ status' = o.st
    /\ pc' = "gz_flush"
    /\ UNCHANGED <<win32, fs, call, compressedfilename, ret, finSize, infile_remaining, fin_pos, s_inbuf, crc,
                   fed, iolog, zipvars>>

\* A mutant of the flush test: only a full output buffer is written.
NeedsFlushOnlyFull(st, avail_out) == avail_out = 0

\* (status == Z_STREAM_END) || (!stream.avail_out)
NeedsFlush(st, avail_out) == st = Z_STREAM_END \/ avail_out = 0

\* A mutant of the loop's exit test: the loop is never left.
LoopEndsNever(st) == FALSE

\* if (status == Z_STREAM_END) break;
LoopEnds(st) == st = Z_STREAM_END

\* Lines 459-465: out of the loop, a failure, or one more turn.
AfterStep ==
    IF LoopEnds(status)
    THEN pc' = "gz_end" /\ ret' = ret
    ELSE IF status # Z_OK
    THEN Return(E_MINIZ_ERROR)
    ELSE pc' = "gz_loop" /\ ret' = ret

\* Lines 446-465: flush the output buffer, then look at the status.  The
\* bytes of s_outbuf stay where they are; next_out is put back to its start.
GzipFlush ==
    /\ pc = "gz_flush"
    /\ IF NeedsFlush(status, stream.avail_out)
       THEN LET n == BUF_SIZE - stream.avail_out
                bytes == SubSeq(s_outbuf, 1, n)
            IN  \E ok \in {TRUE} \cup {b \in {FALSE} : n > 0} :
                  /\ fs' = FoutWrite(fs, bytes, ok)
                  /\ iolog' = Logged("pay", bytes, ok)
                  /\ IF ok
                     THEN /\ stream' = [stream EXCEPT !.next_out = 0, !.avail_out = BUF_SIZE]
                          /\ AfterStep
                     ELSE Return(E_MINIZ_ERROR) /\ UNCHANGED stream
       ELSE /\ AfterStep
            /\ UNCHANGED <<fs, iolog, stream>>
    /\ UNCHANGED s_outbuf
    /\ UNCHANGED <<win32, call, compressedfilename, finSize, infile_remaining, fin_pos, s_inbuf, crc, status, z,
                   fed, zipvars>>

\* Lines 468-472: deflateEnd.
GzipDeflateEnd ==
    /\ pc = "gz_end"
    /\ z' = [z EXCEPT !.ends = @ + 1]
    /\ \E ok \in BOOLEAN :
        IF ok THEN pc' = "gz_footer" /\ ret' = ret ELSE Return(E_MINIZ_ERROR)
    /\ UNCHANGED <<win32, fs, call, compressedfilename, finSize, infile_remaining, fin_pos, stream, s_inbuf,
                   s_outbuf, crc, status, fed, iolog, zipvars>>

\* Lines 474-482: the footer, whose writes' results are not read, and Z_OK.
GzipFooter ==
    /\ pc = "gz_footer"
    /\ \E ok \in BOOLEAN :
        LET bytes == GzipFooterBytes(crc, modsize(win32, ToQInt64(finSize)))
        IN  /\ fs' = FoutWrite(fs, bytes, ok)
            /\ iolog' = Logged("ftr", bytes, ok)
    /\ Return(Z_OK)
    /\ UNCHANGED <<win32, call, compressedfilename, finSize, infile_remaining, fin_pos, stream, s_inbuf,
                   s_outbuf, crc, status, z, fed, zipvars>>

\* -------------------------------------------------------- compressZipFile
\* if (!QFile::exists(srcfilename)) of compressZipFile
ZipSourceMissing(path) == ~QFileExists(path)

\* The entry mz_zip_writer_add_file stores: the archive name it is given and
\* the bytes of the file it opens.
ZipEntry(name, data) == [name |-> name, data |-> data, isDir |-> FALSE, ok |-> TRUE]

\* Lines 127-183.  `fail` names the call of the archive library that reports
\* a failure of its own; mz_zip_writer_add_file also fails when it cannot open
\* the file it is told to add.
CompressZipFile(i_filename, i_srcpath, i_dstpath, via) ==
    /\ pc = "idle"
    /\ call' = [fn |-> "compressZipFile", via |-> via, name |-> i_filename,
                src |-> i_srcpath, dst |-> i_dstpath]
    /\ compressedfilename' = getCompressedFilename(i_filename, ZIP_ARCHIVE)
    /\ LET destfilename == calculateFilenameWithPath(win32, i_dstpath, compressedfilename')
           srcfile == calculateFilenameWithPath(win32, i_srcpath, i_filename)
           A == Canon(toLatin1(destfilename))
           S == Canon(toLatin1(srcfile))
       IN  IF ZipSourceMissing(srcfile)
           THEN /\ Return(E_FILE_NOT_OPEN)
                /\ zip' = [zip EXCEPT !.failed = FALSE]
                /\ UNCHANGED <<fs, prev>>
           ELSE \E fail \in {"none", "open", "add", "finalize", "end"} :
                  LET opened == fail # "open" /\ NativeOpenable(win32, A)
                      fs1 == IF opened THEN FsPut(fs, A, ZipFile("zipw", <<>>)) ELSE fs
                      added == /\ opened
                               /\ fail # "add"
                               /\ NativeOpenable(win32, S)
                               /\ S \in DOMAIN fs1
                      entry == ZipEntry(toLatin1(compressedfilename'), fs1[S].bytes)
                      fs2 == IF added THEN FsPut(fs1, A, ZipFile("zipw", <<entry>>)) ELSE fs1
                      finalized == added /\ fail # "finalize"
                      fs3 == IF finalized THEN FsPut(fs2, A, ZipFile("zip", <<entry>>)) ELSE fs2
                      code == IF finalized /\ fail # "end" THEN 0 ELSE EXIT_FAILURE
                  IN  /\ fs' = fs3
                      /\ zip' = [opens |-> zip.opens + (IF opened THEN 1 ELSE 0),
                                 closes |-> zip.closes + (IF finalized THEN 1 ELSE 0),
                                 failed |-> code # 0]
                      /\ Return(code)
                      /\ prev' = [fn |-> "compressZipFile", ret |-> code,
                                  F |-> fs[Canon(srcfile)].bytes, archive |-> A]
    /\ UNCHANGED <<win32, gzvars, uz>>

\* Lines 64-71: GZIP_ARCHIVE goes to compressGzipFile, every other value to
\* compressZipFile.
fileCompress(i_fileName, i_srcpath, i_dstpath, i_algo) ==
    IF i_algo = GZIP_ARCHIVE
    THEN GzipCall(i_fileName, i_srcpath, i_dstpath, i_algo)
    ELSE CompressZipFile(i_fileName, i_srcpath, i_dstpath, i_algo)

\* ------------------------------------------------------ uncompressZipFile
\* Lines 193-213: the archive is opened and its entries counted.  The call is
\* made on the initial file system or after a compressZipFile.
UnzipCall(filename, destDir) ==
    /\ pc = "idle" \/ (pc = "done" /\ call.fn = "compressZipFile")
    /\ call' = [fn |-> "uncompressZipFile", via |-> "direct", name |-> filename,
                src |-> <<>>, dst |-> destDir]
    /\ LET P == Canon(toLatin1(filename))
       IN  \E okOpen \in BOOLEAN :
             LET opened == /\ okOpen
                           /\ NativeOpenable(win32, P)
                           /\ P \in DOMAIN fs
                           /\ fs[P].kind = "zip"
             IN  IF ~opened
                 THEN /\ Return(EXIT_FAILURE)
                      /\ zip' = [zip EXCEPT !.failed = TRUE]
                      /\ UNCHANGED uz
                 ELSE IF Len(fs[P].entries) = 0
                 THEN /\ Return(0)
                      /\ zip' = [opens |-> zip.opens + 1, closes |-> zip.closes + 1,
                                 failed |-> FALSE]
                      /\ uz' = [NoUz EXCEPT !.path = P, !.before = fs]
                 ELSE /\ pc' = "uz_loop"
                      /\ ret' = ret
                      /\ zip' = [zip EXCEPT !.opens = @ + 1, !.failed = FALSE]
                      /\ uz' = [NoUz EXCEPT !.path = P, !.entries = fs[P].entries,
                                             !.before = fs]
    /\ UNCHANGED <<win32, fs, compressedfilename, gzvars, prev>>

\* QString("%1/%2").arg(!destDir.isEmpty() ? destDir : ".", destfn)
UnzipDestfilename(destDir, stored) ==
    (IF destDir # <<>> THEN destDir ELSE <<".">>) \o <<"/">> \o fileName(fromUtf8(stored))

\* Lines 216-239: one turn of the loop over the entries.
\* mz_zip_reader_extract_to_file opens the target for writing, which creates or
\* truncates it, and then reads the entry's data from the archive file: once
\* the archive file itself was truncated, only an entry without data can
\* still be read.
UnzipEntry ==
    /\ pc = "uz_loop"
    /\ uz.i < Len(uz.entries)
    /\ LET e == uz.entries[uz.i + 1]
           T == Canon(toLatin1(UnzipDestfilename(call.dst, e.name)))
       IN  IF ~e.ok \/ e.isDir
           THEN /\ uz' = [uz EXCEPT !.i = @ + 1]
                /\ UNCHANGED <<fs, pc, ret, zip>>
           ELSE \E okX \in BOOLEAN :
                  LET created == okX /\ NativeOpenable(win32, T)
                      clobbered == uz.clobbered \/ (created /\ T = uz.path)
                      success == created /\ (~clobbered \/ e.data = <<>>)
                  IN  /\ fs' = IF created
                               THEN FsPut(fs, T, RawFile(IF success THEN e.data ELSE <<>>))
                               ELSE fs
                      /\ IF success
                         THEN /\ uz' = [uz EXCEPT !.i = @ + 1, !.clobbered = clobbered,
                                                  !.extracted = @ \cup {T}]
                              /\ UNCHANGED <<pc, ret, zip>>
                         ELSE /\ uz' = [uz EXCEPT !.clobbered = clobbered]
                              /\ zip' = [zip EXCEPT !.failed = TRUE]
                              /\ Return(EXIT_FAILURE)
    /\ UNCHANGED <<win32, call, compressedfilename, gzvars, prev>>

\* Lines 241-244: the loop is over, the archive is closed.
UnzipEnd ==
    /\ pc = "uz_loop"
    /\ uz.i = Len(uz.entries)
    /\ zip' = [zip EXCEPT !.closes = @ + 1]
    /\ Return(0)
    /\ UNCHANGED <<win32, fs, call, compressedfilename, gzvars, uz, prev>>

\* The archive paths uncompressZipFile is called with: where a compressZipFile
\* call puts its archive, and a file that is no archive.
UnzipArgs ==
    {calculateFilenameWithPath(FALSE, d, getCompressedFilename(n, ZIP_ARCHIVE)) :
        d \in Dirs, n \in FileNames} \cup {<<"s", "/", "a">>}

\* -------------------------------------------------------------------- Next
Next ==
    \/ \E n \in FileNames, s \in Dirs, d \in Dirs : GzipCall(n, s, d, "direct")
    \/ \E n \in FileNames, s \in Dirs, d \in Dirs : CompressZipFile(n, s, d, "direct")
    \/ \E n \in FileNames, s \in Dirs, d \in Dirs, a \in Algos : fileCompress(n, s, d, a)
    \/ GzipOpen
    \/ GzipHeader
    \/ GzipInit
    \/ GzipRead
    \/ GzipDeflate
    \/ GzipFlush
    \/ GzipDeflateEnd
    \/ GzipFooter
    \/ \E f \in UnzipArgs, dd \in DestDirs : UnzipCall(f, dd)
    \/ UnzipEntry
    \/ UnzipEnd

Spec == Init /\ [][Next]_vars

\* ------------------------------------------------- the loop specification
\* One compressGzipFile call on every source file.  The statements of the
\* loop follow one another: a step that can be taken is taken.
NextLoop ==
    \/ GzipCall(<<"a">>, <<"s">>, <<"d", "/">>, "direct")
    \/ GzipOpen
    \/ GzipHeader
    \/ GzipInit
    \/ GzipRead
    \/ GzipDeflate
    \/ GzipFlush
    \/ GzipDeflateEnd
    \/ GzipFooter

SpecLoop ==
    /\ Init
    /\ [][NextLoop]_vars
    /\ WF_vars(GzipRead) /\ WF_vars(GzipDeflate) /\ WF_vars(GzipFlush)

\* ------------------------------------------- the file-name specification
\* getCompressedFilename as a function of its arguments: every name of up
\* to MaxNameLen characters, every algorithm value.
NameChars == {"a", "\\", "/", ":", "_"}
Names == SeqsUpTo(NameChars, MaxNameLen)

InitName ==
    /\ win32 = FALSE
    /\ fs = InitFs(FALSE, <<>>)
    /\ InitLocals
    /\ \E n \in Names, a \in Algos :
         call = [fn |-> "getCompressedFilename", via |-> a, name |-> n,
                 src |-> <<>>, dst |-> <<>>]

\* Lines 101-112.
GetCompressedFilename ==
    /\ pc = "idle"
    /\ call.fn = "getCompressedFilename"
    /\ compressedfilename' = getCompressedFilename(call.name, call.via)
    /\ pc' = "done"
    /\ UNCHANGED <<win32, fs, call, ret, gzvars, zipvars>>

NextName == GetCompressedFilename

SpecName == InitName /\ [][NextName]_vars

\* ------------------------------------------- the extraction specification
\* uncompressZipFile on archives of any origin: up to MaxEntries entries, each
\* a directory, a file under a directory, a file with the same base name, a
\* file whose name is outside Latin-1, or an entry mz_zip_reader_file_stat
\* fails on.
DirEntry(name) == [name |-> name, data |-> <<>>, isDir |-> TRUE, ok |-> TRUE]
BadEntry(name, data) == [name |-> name, data |-> data, isDir |-> FALSE, ok |-> FALSE]
EntryPool ==
    {DirEntry(<<"b", "/">>),
     ZipEntry(<<"b", "/", "a">>, <<97>>),
     ZipEntry(<<"a">>, <<0>>),
     ZipEntry(<<NonLatin1>>, <<97, 97>>),
     BadEntry(<<"g">>, <<97, 0>>)}
Archives == SeqsUpTo(EntryPool, MaxEntries)
ArchivePath == <<"s", "/", "z">>

\* The archive, and a file the destination directory "d" holds already.
InitUnzipFs(A) ==
    [p \in {ArchivePath, <<"d", "/", "a">>} |->
        IF p = ArchivePath THEN ZipFile("zip", A) ELSE RawFile(Decoy)]

InitUnzip ==
    /\ win32 \in BOOLEAN
    /\ \E A \in Archives : fs = InitUnzipFs(A)
    /\ call = NoCall
    /\ InitLocals

NextUnzip ==
    \/ \E dd \in DestDirs : UnzipCall(ArchivePath, dd)
    \/ UnzipEntry
    \/ UnzipEnd

SpecUnzip == InitUnzip /\ [][NextUnzip]_vars

\* ------------------------------------------------------------- the claims
GzipDone == pc = "done" /\ call.fn = "compressGzipFile"
\* The source file of the running call, and what compressGzipFile wrote.
SourceBytes == fs[Canon(srcfilename)].bytes
GzipOutput == fs[Canon(gzDestfilename)].bytes
LastIo == iolog[Len(iolog)]
FooterWritten == Len(iolog) > 0 /\ LastIo.part = "ftr" /\ LastIo.ok
\* The little-endian bytes of a length below 2^31 and of a 32-bit word,
\* written without getByte.
LenLE(n) == <<n % 256, (n \div 256) % 256, (n \div 65536) % 256, n \div 16777216>>
WordLE(w) == <<w[1] % 256, w[1] \div 256, w[2] % 256, w[2] \div 256>>
WritesOf(part) == SelectSeq(iolog, LAMBDA e : e.part = part)
RECURSIVE Concat(_)
Concat(ss) == IF ss = <<>> THEN <<>> ELSE Head(ss).bytes \o Concat(Tail(ss))

\* C1: after compressGzipFile returns 0, the size field of the footer (the
\* last 4 bytes of the output, little-endian) is the source's length modulo
\* 2^32.  (Every source of the model is shorter than 2^31 bytes.)
C1_SizeFieldIsLength ==
    (GzipDone /\ ret = 0 /\ FooterWritten) =>
        SubSeq(GzipOutput, Len(GzipOutput) - 3, Len(GzipOutput)) = LenLE(Len(SourceBytes))

\* C2: after compressGzipFile returns 0, the CRC32 field of the footer is the
\* CRC32 of all bytes of the source in file order: the bytes handed to the
\* running CRC are the source's bytes, each once and in order, and they are
\* the bytes the compressor consumed.
C2_CrcCoversSource ==
    (GzipDone /\ ret = 0) =>
        /\ fed = SourceBytes
        /\ z.consumed = SourceBytes
        /\ LastIo.part = "ftr"
        /\ SubSeq(LastIo.bytes, 1, 4) = WordLE(mz_crc32(MZ_CRC32_INIT, SourceBytes))
        /\ FooterWritten =>
             SubSeq(GzipOutput, Len(GzipOutput) - 7, Len(GzipOutput) - 4)
                = WordLE(mz_crc32(MZ_CRC32_INIT, SourceBytes))

\* A source of several blocks, the last one partial, whose bytes differ.
C2_Witness ==
    /\ GzipDone /\ ret = 0 /\ FooterWritten
    /\ Len(SourceBytes) > BUF_SIZE
    /\ Len(SourceBytes) % BUF_SIZE # 0
    /\ Cardinality(Range(SourceBytes)) = 2

\* C3: the destination receives the 10-byte header first, then only payload
\* bytes, then the 8-byte footer; the footer is written at most once, only
\* after the compressor signalled stream end and all payload was written; and
\* compressGzipFile returns 0 only if header, complete payload and footer were
\* all written in that order.
C3_FrameOrder ==
    LET w == SelectSeq(iolog, LAMBDA e : e.part # "read")
    IN  /\ \A k \in 1..Len(w) :
            /\ (w[k].part = "hdr") <=> (k = 1)
            /\ (w[k].part = "ftr") => (k = Len(w) /\ status = Z_STREAM_END
                                        /\ Len(Concat(WritesOf("pay"))) = z.produced)
        /\ (GzipDone /\ ret = 0) =>
            /\ Len(w) >= 2 /\ w[Len(w)].part = "ftr"
            /\ \A k \in 1..Len(w) : w[k].ok
            /\ Len(w[1].bytes) = 10 /\ Len(w[Len(w)].bytes) = 8
            /\ GzipOutput = Concat(w)

\* C4: once deflateInit2 has succeeded, deflateEnd is called exactly once on
\* every path out of compressGzipFile.
C4_DeflateEndOnEveryExit ==
    /\ z.ends <= z.inits
    /\ GzipDone => z.ends = z.inits

\* C5: an archive handle that compressZipFile or uncompressZipFile opened is
\* closed exactly once before the call returns, whether it succeeds or fails.
C5_ArchiveClosedOnEveryExit ==
    /\ zip.closes <= zip.opens
    /\ (pc = "done" /\ call.fn \in {"compressZipFile", "uncompressZipFile"}) =>
           zip.closes = zip.opens

\* C6: every failure the archive library reports is returned as E_MINIZ_ERROR
\* (-3), and no failing call of fileCompress, compressZipFile or
\* uncompressZipFile returns a non-negative value.
C6_ArchiveFailureIsCodecError ==
    (pc = "done" /\ call.fn \in {"compressZipFile", "uncompressZipFile"}) =>
        /\ zip.failed => ret = E_MINIZ_ERROR
        /\ ret >= 0 => (ret = 0 /\ ~zip.failed)

\* C7: in compressGzipFile a read or a write that transfers fewer bytes than
\* requested is fatal: the call returns E_MINIZ_ERROR and never 0, for the
\* reads and writes of the loop and for the writes of header and footer.
C7_ShortTransferIsFatal ==
    (GzipDone /\ \E k \in 1..Len(iolog) : ~iolog[k].ok) => ret = E_MINIZ_ERROR

\* C8: when the source file does not exist, compressGzipFile and
\* compressZipFile return E_FILE_NOT_OPEN at once and leave the file system as
\* it was; no compressor and no archive handle is opened.
C8_MissingSource ==
    [][(/\ pc = "idle"
        /\ call'.fn \in {"compressGzipFile", "compressZipFile"}
        /\ Canon(calculateFilenameWithPath(win32, call'.src, call'.name)) \notin DOMAIN fs)
       => (/\ pc' = "done"
           /\ ret' = E_FILE_NOT_OPEN
           /\ fs' = fs
           /\ z'.inits = z.inits
           /\ zip'.opens = zip.opens)]_vars

\* compressGzipFile has returned for a source that does not exist.
C8_Witness ==
    /\ GzipDone
    /\ ret = E_FILE_NOT_OPEN
    /\ Canon(srcfilename) \notin DOMAIN fs

\* C9: if compressZipFile returned 0 and uncompressZipFile, called on the
\* archive it produced, returns 0, the destination directory holds an
\* extracted file whose bytes are those of the source file.
C9_ZipRoundTrip ==
    (/\ pc = "done" /\ call.fn = "uncompressZipFile" /\ ret = 0
     /\ prev.fn = "compressZipFile" /\ prev.ret = 0
     /\ uz.path = prev.archive)
    => \E t \in uz.extracted : fs[t].kind = "raw" /\ fs[t].bytes = prev.F

\* C10: getCompressedFilename(name, algo) is name followed by ".gz" for Gzip;
\* for Zip it is name with every '\', '/' and ':' replaced by '_', followed by
\* ".zip", so the part before ".zip" is as long as name and holds none of the
\* three characters; for any other algorithm it is name.
C10_CompressedFilename ==
    (pc = "done" /\ call.fn = "getCompressedFilename") =>
        LET name == call.name
            out == compressedfilename
            stem == SubSeq(out, 1, Len(name))
            ext == SubSeq(out, Len(name) + 1, Len(out))
        IN  CASE call.via = GZIP_ARCHIVE -> stem = name /\ ext = <<".", "g", "z">>
              [] call.via = ZIP_ARCHIVE ->
                    /\ ext = <<".", "z", "i", "p">>
                    /\ Len(stem) = Len(name)
                    /\ \A k \in 1..Len(name) :
                         stem[k] = IF name[k] \in {"\\", "/", ":"} THEN "_" ELSE name[k]
                    /\ Range(stem) \cap {"\\", "/", ":"} = {}
              [] OTHER -> out = name

\* A Zip name that holds each of the three characters.
C10_Witness ==
    /\ pc = "done" /\ call.fn = "getCompressedFilename"
    /\ call.via = ZIP_ARCHIVE
    /\ {"\\", "/", ":"} \subseteq Range(call.name)
    /\ compressedfilename = <<"_", "_", "_", ".", "z", "i", "p">>

\* The path of an entry's file: the destination directory, the current
\* directory when it is empty, and the last component of the stored name.
EntryPath(destDir, stored) ==
    Canon((IF destDir # <<>> THEN destDir ELSE <<".">>) \o <<"/">> \o fileName(stored))

\* The file system after the entries were extracted one after the other onto
\* f; an entry whose record the library cannot read is left to C16.
RECURSIVE AfterEntries(_, _, _)
AfterEntries(f, es, destDir) ==
    IF es = <<>> THEN f
    ELSE LET e == Head(es)
         IN  AfterEntries(IF e.isDir \/ ~e.ok THEN f
                          ELSE FsPut(f, EntryPath(destDir, e.name), RawFile(e.data)),
                          Tail(es), destDir)

UnzipDone == pc = "done" /\ call.fn = "uncompressZipFile"

\* C11: uncompressZipFile handles the entries in archive order: a directory
\* entry changes nothing, a file entry is written to the destination
\* directory (the current one when destDir is empty) under the last component
\* of its stored name, so that a later entry of the same base name wins; an
\* archive without entries returns 0 and changes nothing.
C11_ExtractsInOrder ==
    /\ (pc = "uz_loop") =>
          fs = AfterEntries(uz.before, SubSeq(uz.entries, 1, uz.i), call.dst)
    /\ (UnzipDone /\ ret = 0) => fs = AfterEntries(uz.before, uz.entries, call.dst)
    /\ (UnzipDone /\ uz.path # <<>> /\ uz.before[uz.path].entries = <<>>) =>
          ret = 0 /\ fs = uz.before

\* compressGzipFile returned 0 on an empty source and no write failed.
EmptyGzipDone ==
    /\ GzipDone /\ ret = 0
    /\ Len(SourceBytes) = 0
    /\ \A k \in 1..Len(iolog) : iolog[k].ok

PayloadWritten == Concat(SelectSeq(iolog, LAMBDA e : e.part = "pay" /\ e.ok))
Produced == [k \in 1..z.produced |-> k]
InGzipLoop == pc \in {"gz_loop", "gz_deflate", "gz_flush", "gz_end", "gz_footer"}

\* C13: in the loop of compressGzipFile the bytes written to the destination
\* between header and footer are the bytes the compressor produced, in the
\* order of production and each exactly once: at every point what was
\* written followed by what waits in the output buffer is what was produced;
\* after every flush the output buffer is empty again; when the loop is left
\* every produced byte has been written.
C13_PayloadIsProduced ==
    /\ [](InGzipLoop =>
            /\ stream.next_out = BUF_SIZE - stream.avail_out
            /\ PayloadWritten \o SubSeq(s_outbuf, 1, stream.next_out) = Produced)
    /\ []((pc \in {"gz_end", "gz_footer"} \/ (GzipDone /\ ret = 0)) =>
            PayloadWritten = Produced)
    /\ [][(pc = "gz_flush" /\ Len(iolog') > Len(iolog) /\ iolog'[Len(iolog')].ok) =>
            /\ iolog'[Len(iolog')].bytes = SubSeq(s_outbuf, 1, stream.next_out)
            /\ stream'.next_out = 0
            /\ stream'.avail_out = BUF_SIZE]_vars

\* The stream ended in the step that filled the output buffer, after an
\* earlier flush of a full buffer.
C13_Witness ==
    /\ pc = "gz_end"
    /\ z.produced = 2 * BUF_SIZE
    /\ Len(WritesOf("pay")) = 2
    /\ Len(LastIo.bytes) = BUF_SIZE
    /\ PayloadWritten = Produced

\* The loop was left by a return: a read or a write of the loop fell short,
\* or deflate reported an error.
LoopFailed ==
    /\ GzipDone /\ ret = E_MINIZ_ERROR
    /\ \/ Len(iolog) > 0 /\ ~LastIo.ok /\ LastIo.part \in {"read", "pay"}
       \/ status \notin {Z_OK, Z_STREAM_END}

\* C14: the loop of compressGzipFile terminates for every source length: as
\* long as no read or write falls short and deflate reports no error, it is
\* left, and it is left exactly when deflate signals the end of the stream,
\* with no byte of the source unread and none unconsumed; a read of zero
\* bytes, issued while the stream is being finished, is no short read.
C14_LoopTerminates ==
    /\ []((pc \in {"gz_loop", "gz_deflate"}) => status = Z_OK)
    /\ []((pc = "gz_end") =>
            /\ status = Z_STREAM_END
            /\ infile_remaining = 0
            /\ fin_pos = finSize
            /\ stream.avail_in = 0
            /\ z.consumed = SourceBytes)
    /\ [](\A k \in 1..Len(iolog) :
            (iolog[k].part = "read" /\ iolog[k].bytes = <<>>) => iolog[k].ok)
    /\ ((pc = "gz_loop") ~> (pc = "gz_end" \/ LoopFailed))

\* The loop was left after a read of zero bytes that followed a flush of a
\* full output buffer: all input was read and the stream was still unfinished.
C14_Witness ==
    /\ pc = "gz_end"
    /\ finSize > 0
    /\ \E k \in 2..Len(iolog) :
          /\ iolog[k].part = "read" /\ iolog[k].bytes = <<>>
          /\ iolog[k - 1].part = "pay" /\ Len(iolog[k - 1].bytes) = BUF_SIZE

\* C15: throughout compressGzipFile the pending input count and the free
\* output count lie between 0 and the buffer capacity; a read happens only when
\* the pending input is 0 and asks for min(capacity, bytes remaining) bytes;
\* the bytes remaining are never negative and, added to the bytes read so far,
\* give the source length captured before the loop; and a step asks to
\* finish exactly when no bytes remain.
C15_LoopInvariants ==
    /\ [](InGzipLoop =>
            /\ stream.avail_in \in 0..BUF_SIZE
            /\ stream.avail_out \in 0..BUF_SIZE
            /\ infile_remaining >= 0
            /\ fin_pos + infile_remaining = finSize
            /\ Len(fed) = fin_pos
            /\ finSize = Len(SourceBytes))
    /\ [][(pc = "gz_loop" /\ Len(iolog') > Len(iolog)) =>
            /\ stream.avail_in = 0
            /\ iolog'[Len(iolog')].part = "read"
            /\ Len(iolog'[Len(iolog')].bytes) = Min(BUF_SIZE, infile_remaining)
            /\ Len(iolog'[Len(iolog')].bytes) = Min(BUF_SIZE, finSize - fin_pos)]_vars
    /\ [][(pc = "gz_loop" /\ stream.avail_in # 0) => iolog' = iolog]_vars
    /\ [][(pc = "gz_deflate") =>
            ((z'.flush = Z_FINISH) <=> (infile_remaining = 0))]_vars

\* A step that was not asked to finish found input left over from the step
\* before, whose output buffer had filled up, so that no read preceded it.
C15_Witness ==
    /\ pc = "gz_flush"
    /\ z.flush = Z_NO_FLUSH
    /\ infile_remaining > 0
    /\ fin_pos = BUF_SIZE
    /\ Len(z.consumed) = BUF_SIZE
    /\ Len(WritesOf("pay")) = 1
    /\ LastIo.part = "pay"

\* C16: when uncompressZipFile returns 0, every entry of the archive that is
\* no directory has been extracted into the destination directory.
C16_NoFileEntrySkipped ==
    (UnzipDone /\ ret = 0) =>
        \A k \in 1..Len(uz.entries) :
            ~uz.entries[k].isDir =>
                Canon(toLatin1(UnzipDestfilename(call.dst, uz.entries[k].name)))
                    \in uz.extracted

\* C17: a fileCompress call that returned 0 has created its output at dstDir
\* joined with getCompressedFilename(name, A), in the container format A
\* names: the file the call wrote is the one of that name, and it is a GZIP
\* frame, a ZIP archive, or the plain file.
C17_OutputWhereNamed ==
    (/\ pc = "done" /\ ret = 0
     /\ call.fn \in {"compressGzipFile", "compressZipFile"}
     /\ call.via \in {NO_COMPRESSION, GZIP_ARCHIVE, ZIP_ARCHIVE})
    => LET out == Canon(calculateFilenameWithPath(win32, call.dst,
                              getCompressedFilename(call.name, call.via)))
           created == IF call.fn = "compressZipFile" THEN prev.archive
                      ELSE Canon(gzDestfilename)
       IN  /\ out = created
           /\ out \in DOMAIN fs
           /\ CASE call.via = GZIP_ARCHIVE ->
                     /\ fs[out].kind = "raw"
                     /\ Len(fs[out].bytes) >= 18
                     /\ SubSeq(fs[out].bytes, 1, 3) = <<31, 139, 8>>
                [] call.via = ZIP_ARCHIVE ->
                     /\ fs[out].kind = "zip"
                     /\ Len(fs[out].entries) = 1
                [] OTHER -> fs[out].kind = "raw"

\* C18: uncompressZipFile, called on an archive compressZipFile produced,
\* never creates, truncates or overwrites the archive it is reading: no
\* extraction target is the path of the open archive.
C18_ArchiveNeverTarget ==
    (/\ call.fn = "uncompressZipFile"
     /\ prev.fn = "compressZipFile" /\ prev.ret = 0
     /\ uz.path = prev.archive)
    => /\ ~uz.clobbered
       /\ uz.path \notin uz.extracted
       /\ fs[uz.path] = uz.before[uz.path]
       /\ (pc = "uz_loop" /\ uz.i < Len(uz.entries)) =>
             Canon(toLatin1(UnzipDestfilename(call.dst, uz.entries[uz.i + 1].name)))
                 # uz.path

=============================================================================
